---- MODULE Spec2Model ----
(***************************************************************************)
(* A model of the WhatsApp support bot of src/main.py: the identity cache  *)
(* (get_user_info), the intent classifier (get_smart_response), the        *)
(* booking formatters, the transcription, the query router                 *)
(* (handle_user_query), the background pipeline                            *)
(* (process_whatsapp_message) and the routes of /webhook.                  *)
(*                                                                         *)
(* Texts are sequences: a phone number is a sequence of one-character      *)
(* strings, a message or a model output is a sequence of tokens (words,    *)
(* the blank " ", the newline "\n" and the two markers "INTENT:" and       *)
(* "RESPONSE:").                                                           *)
(***************************************************************************)
EXTENDS Integers, Sequences, FiniteSets, TLC

VARIABLES
    firestore_db,   \* TRUE: a Firestore client, FALSE: None (main.py 29-38)
    model,          \* TRUE: a GenerativeModel, FALSE: None (main.py 41-49)
    user_cache,     \* the dict user_cache (main.py 59): phone -> entry
    directory,      \* collection app_users: value of field phone -> document
    now,            \* time.time(), in seconds
    ticks,          \* number of times the clock has advanced
    ncalls,         \* number of get_user_info calls made
    last,           \* the most recent get_user_info call of the cache specification
    calls,          \* per phone argument, the latest call that queried the directory
    norm,           \* the most recent phone normalisation: input and output
    cls,            \* the most recent get_smart_response call
    run,            \* the most recent process_whatsapp_message run
    fmt,            \* the most recent call of the two booking formatters
    http,           \* the most recent request of the route /webhook and its response
    tasks,          \* the background threads started by webhook_handler
    resolvers,      \* the concurrent get_user_info calls: position and locals
    reads,          \* number of directory reads made by the concurrent calls
    VERIFY_TOKEN    \* os.environ.get("VERIFY_TOKEN") (main.py 22)

vars == <<firestore_db, model, user_cache, directory, now, ticks, ncalls, last,
          calls, norm, cls, run, fmt, http, tasks, resolvers, reads, VERIFY_TOKEN>>

(***************************************************************************)
(* Bounds of the model.                                                    *)
(***************************************************************************)
MaxTicks == 2
MaxCalls == 3
MaxDigits == 4
MaxTokens == 5
MaxBookings == 2

(***************************************************************************)
(* Python values.                                                          *)
(***************************************************************************)
\* dict.get(key) of a key the dict does not hold
Absent == "<absent>"

\* the value None returned by get_user_info, as a record of the same shape as
\* a user dict
NoneUser == [none |-> TRUE, id |-> Absent, uid |-> Absent, name |-> Absent]

\* user_data = doc.to_dict(); user_data['id'] = doc.id
UserData(doc) == [none |-> FALSE, id |-> doc.id, uid |-> doc.uid, name |-> doc.name]

\* no document stored under a phone number
NoDoc == [id |-> Absent, uid |-> Absent, name |-> Absent]

\* documents of app_users: with a name, without the field name, with an empty
\* name, and with an empty uid
Docs ==
    { [id |-> "docA", uid |-> "u1", name |-> "Asha"],
      [id |-> "docB", uid |-> "u2", name |-> Absent],
      [id |-> "docC", uid |-> "u3", name |-> ""],
      [id |-> "docD", uid |-> "", name |-> "Ravi"] }

\* the documents the cache specification stores
CacheDocs == { d \in Docs : d.id \in {"docA", "docD"} }

(***************************************************************************)
(* Phone normalisation: phone_number.replace('+', '').lstrip('91')         *)
(***************************************************************************)
\* str.replace('+', ''): every '+' is removed
ReplacePlus(s) == SelectSeq(s, LAMBDA c : c # "+")

RECURSIVE LStripChars(_, _)
\* str.lstrip(chars): removes every leading character that is in chars
LStripChars(s, chars) ==
    IF s # <<>> /\ Head(s) \in chars THEN LStripChars(Tail(s), chars) ELSE s

\* str.lstrip('91')
LStrip91(s) == LStripChars(s, {"9", "1"})

\* query_number, main.py line 93
QueryNumber(phone_number) == LStrip91(ReplacePlus(phone_number))

(***************************************************************************)
(* The identity cache.                                                     *)
(***************************************************************************)
CACHE_TTL == 300

\* the phone arguments of the cache specification
Phones == { <<"+", "9", "1", "8">>, <<"9", "1", "8">> }

\* the values of the field phone the directory is queried for
DirPhones == { QueryNumber(p) : p \in Phones }

\* cache_key not in user_cache
NoEntry == [present |-> FALSE, data |-> NoneUser, timestamp |-> 0]

\* user_cache[cache_key] = (data, timestamp)
Entry(data, timestamp) == [present |-> TRUE, data |-> data, timestamp |-> timestamp]

\* a wrong key: the normalised number
CacheKeyNormalized(phone_number) == QueryNumber(phone_number)

\* cache_key = phone_number, main.py line 85
CacheKey(phone_number) == phone_number

\* a wrong freshness test: an entry of age CACHE_TTL is still served
FreshInclusive(entry, t) == entry.present /\ t - entry.timestamp <= CACHE_TTL

\* cache_key in user_cache and time.time() - timestamp < CACHE_TTL
Fresh(entry, t) == entry.present /\ t - entry.timestamp < CACHE_TTL

\* where('phone', '==', query_number).where('uid', '>', '').limit(1): the
\* document stored under the number, if its uid is a non-empty string
FindUser(dir, query_number) ==
    IF query_number \in DOMAIN dir
       /\ dir[query_number] # NoDoc
       /\ dir[query_number].uid \notin {Absent, ""}
    THEN dir[query_number]
    ELSE NoDoc

\* the entry of key k in cache c
Lookup(c, k) == IF k \in DOMAIN c THEN c[k] ELSE NoEntry

\* c with the entry of key k set to e
Store(c, k, e) == [x \in (DOMAIN c) \cup {k} |-> IF x = k THEN e ELSE Lookup(c, x)]

\* the except branch of get_user_info stores nothing (main.py 109-111)
CacheAfterError(c, k, t) == c

\* a wrong else branch: "no user" is not cached
CacheAfterNotFoundDropped(c, k, t) == c

\* user_cache[cache_key] = (None, time.time()), main.py line 106
CacheAfterNotFound(c, k, t) == Store(c, k, Entry(NoneUser, t))

\* get_user_info(phone_number), main.py 83-111. db: firestore_db; c: user_cache;
\* dir: the directory; t: time.time() at the call; fails: the query raises;
\* lat: the seconds the query takes. The result: the value returned, the cache
\* afterwards, whether the directory was queried, and the time at the return.
GetUserInfo(db, c, dir, t, phone_number, fails, lat) ==
    LET cache_key == CacheKey(phone_number)
        entry == Lookup(c, cache_key)
        doc == FindUser(dir, QueryNumber(phone_number))
    IN  IF ~db
        THEN [ret |-> NoneUser, cache |-> c, queried |-> FALSE,
              outcome |-> "nodb", time |-> t]
        ELSE IF Fresh(entry, t)
        THEN [ret |-> entry.data, cache |-> c, queried |-> FALSE,
              outcome |-> "hit", time |-> t]
        ELSE IF fails
        THEN [ret |-> NoneUser, cache |-> CacheAfterError(c, cache_key, t + lat),
              queried |-> TRUE, outcome |-> "error", time |-> t + lat]
        ELSE IF doc # NoDoc
        THEN [ret |-> UserData(doc),
              cache |-> Store(c, cache_key, Entry(UserData(doc), t + lat)),
              queried |-> TRUE, outcome |-> "found", time |-> t + lat]
        ELSE [ret |-> NoneUser,
              cache |-> CacheAfterNotFound(c, cache_key, t + lat),
              queried |-> TRUE, outcome |-> "notfound", time |-> t + lat]

(***************************************************************************)
(* Records of what the operations did, read by the properties.             *)
(***************************************************************************)
\* no get_user_info call has queried the directory for a phone argument yet
NoCall == [seen |-> FALSE, at |-> 0, ret |-> NoneUser, outcome |-> "none"]

\* no get_user_info call yet
NoLast == [seen |-> FALSE, phone |-> <<>>, at |-> 0, ret |-> NoneUser,
           queried |-> FALSE, outcome |-> "none", entry |-> NoEntry,
           doc |-> NoDoc, prev |-> NoCall, sameNumber |-> FALSE]

\* the record of a get_user_info call that started at time t with cache c and
\* earlier calls cs, and ended as r
CallRecord(c, dir, cs, t, phone_number, r) ==
    [seen |-> TRUE, phone |-> phone_number, at |-> t, ret |-> r.ret,
     queried |-> r.queried, outcome |-> r.outcome,
     entry |-> Lookup(c, phone_number),
     doc |-> FindUser(dir, QueryNumber(phone_number)),
     prev |-> IF phone_number \in DOMAIN cs THEN cs[phone_number] ELSE NoCall,
     \* an entry less than CACHE_TTL old exists under another phone argument
     \* of the same normalised number
     sameNumber |-> \E q \in DOMAIN c :
                        /\ q # phone_number
                        /\ QueryNumber(q) = QueryNumber(phone_number)
                        /\ c[q].present
                        /\ t - c[q].timestamp < CACHE_TTL]

\* cs with the call r of phone_number at time t recorded, if it queried the
\* directory: cs holds, per phone argument, the latest lookup
Called(cs, t, phone_number, r) ==
    IF ~r.queried THEN cs
    ELSE [x \in (DOMAIN cs) \cup {phone_number} |->
            IF x = phone_number
            THEN [seen |-> TRUE, at |-> t, ret |-> r.ret, outcome |-> r.outcome]
            ELSE cs[x]]

\* what a directory query that finds doc returns
DirAnswer(doc) == IF doc = NoDoc THEN NoneUser ELSE UserData(doc)

NoNorm == [seen |-> FALSE, prefix |-> <<>>, digits |-> <<>>, inp |-> <<>>, out |-> <<>>]
NoCls == [seen |-> FALSE]
NoRun == [seen |-> FALSE]
NoFmt == [seen |-> FALSE]
NoHttp == [seen |-> FALSE]
NoResolvers == <<>>

(***************************************************************************)
(* The cache specification: get_user_info called for any phone argument,   *)
(* at any time, against a directory that changes and may fail.             *)
(***************************************************************************)
\* the seconds the clock advances by in one step
TickSteps == {299, 300}

\* the seconds a directory query takes
Latencies == {0, 1}

InitCache ==
    /\ firestore_db \in BOOLEAN
    /\ model = TRUE
    /\ user_cache = <<>>
    /\ directory \in [DirPhones -> CacheDocs \cup {NoDoc}]
    /\ now = 0
    /\ ticks = 0
    /\ ncalls = 0
    /\ last = NoLast
    /\ calls = <<>>
    /\ norm = NoNorm
    /\ cls = NoCls
    /\ run = NoRun
    /\ fmt = NoFmt
    /\ http = NoHttp
    /\ tasks = <<>>
    /\ resolvers = NoResolvers
    /\ reads = 0
    /\ VERIFY_TOKEN = "secret"

\* time passes
Tick(d) ==
    /\ ticks < MaxTicks
    /\ now' = now + d
    /\ ticks' = ticks + 1
    /\ UNCHANGED <<firestore_db, model, user_cache, directory, ncalls, last,
                   calls, norm, cls, run,
                   fmt, http, tasks, resolvers, reads, VERIFY_TOKEN>>

\* the directory is written by the application the bot serves
DirectoryChange(k, doc) ==
    /\ directory[k] # doc
    /\ directory' = [directory EXCEPT ![k] = doc]
    /\ UNCHANGED <<firestore_db, model, user_cache, now, ticks, ncalls, last,
                   calls, norm, cls, run,
                   fmt, http, tasks, resolvers, reads, VERIFY_TOKEN>>

\* one call of get_user_info
Resolve(phone_number, fails, lat) ==
    /\ ncalls < MaxCalls
    /\ lat = 0 \/ ticks < MaxTicks
    /\ ncalls' = ncalls + 1
    /\ LET r == GetUserInfo(firestore_db, user_cache, directory, now,
                            phone_number, fails, lat)
       IN  /\ user_cache' = r.cache
           /\ now' = r.time
           /\ ticks' = IF r.time > now THEN ticks + 1 ELSE ticks
           /\ last' = CallRecord(user_cache, directory, calls, now, phone_number, r)
           /\ calls' = Called(calls, now, phone_number, r)
    /\ UNCHANGED <<firestore_db, model, directory, norm, cls, run,
                   fmt, http, tasks, resolvers, reads, VERIFY_TOKEN>>

NextCache ==
    \/ \E d \in TickSteps : Tick(d)
    \/ \E k \in DirPhones, doc \in CacheDocs \cup {NoDoc} : DirectoryChange(k, doc)
    \/ \E p \in Phones, fails \in BOOLEAN, lat \in Latencies : Resolve(p, fails, lat)

SpecCache == InitCache /\ [][NextCache]_vars

(***************************************************************************)
(* Properties of the identity cache.                                       *)
(***************************************************************************)
\* the latest get_user_info call started less than CACHE_TTL after a lookup
\* of the same phone argument
WithinTTLOfLookup ==
    last.seen /\ last.prev.seen /\ last.at - last.prev.at < CACHE_TTL

\* C1 as stated: whatever the first lookup's outcome (found, not found,
\* directory error), a second call for the same phone less than CACHE_TTL later
\* returns the same value and does not query the directory.
C1_AsStated ==
    WithinTTLOfLookup => (last.ret = last.prev.ret /\ ~last.queried)

\* C1, amended: when the first lookup found a user or found none, a second call
\* for the same phone less than CACHE_TTL later returns the same value and does
\* not query the directory; when the first lookup failed with a directory
\* error, nothing was stored and the second call queries the directory again.
C1_SecondCallWithinTTL ==
    WithinTTLOfLookup =>
        /\ last.prev.outcome \in {"found", "notfound"}
              => (last.ret = last.prev.ret /\ ~last.queried)
        /\ last.prev.outcome = "error" => last.queried

\* a second call 299 s after a successful lookup, served from the cache
\* although the directory now holds another answer
C1_Witness ==
    /\ WithinTTLOfLookup
    /\ last.prev.outcome \in {"found", "notfound"}
    /\ last.at - last.prev.at = 299
    /\ ~last.queried
    /\ DirAnswer(last.doc) # last.ret

\* the entry the latest call found for its phone was CACHE_TTL old or older
ExpiredEntry ==
    last.seen /\ last.entry.present /\ last.at - last.entry.timestamp >= CACHE_TTL

\* C2: get_user_info never returns the value of an entry whose age is at or
\* beyond CACHE_TTL: it queries the directory and returns the query's result,
\* None when the query fails.
C2_ExpiredIsRefetched ==
    ExpiredEntry =>
        /\ last.queried
        /\ last.ret = IF last.outcome = "error" THEN NoneUser
                      ELSE DirAnswer(last.doc)

\* a call that found an entry exactly CACHE_TTL old whose value differs from
\* what it returned
C2_Witness ==
    /\ ExpiredEntry
    /\ last.at - last.entry.timestamp = CACHE_TTL
    /\ last.entry.data # last.ret

\* C3 as stated: a call whose phone normalises to the number of another phone
\* argument cached less than CACHE_TTL ago does not contact the directory.
C3_AsStated ==
    (last.seen /\ firestore_db /\ last.sameNumber) => ~last.queried

\* C3, amended: the cache is keyed by the phone argument as passed. A call is
\* served from the cache exactly when an entry less than CACHE_TTL old exists
\* under the identical phone string, and then returns that entry's value; an
\* entry under another spelling of the same number ('+', prefix) is not used.
C3_KeyedByArgument ==
    (last.seen /\ firestore_db) =>
        /\ ~last.queried <=> Fresh(last.entry, last.at)
        /\ ~last.queried => last.ret = last.entry.data

\* a call that queried the directory although another spelling of its number
\* was cached less than CACHE_TTL ago
C3_Witness ==
    last.seen /\ firestore_db /\ last.sameNumber /\ last.queried

(***************************************************************************)
(* The normalisation specification: query_number for "+91"+d, "91"+d, d.   *)
(***************************************************************************)
\* the digits phone numbers are drawn from
Digits == {"9", "1", "8"}

\* the digit strings of length n
DigitStrings(n) == [1..n -> Digits]

\* the prefixes a sender's number arrives with
Prefixes == { <<"+", "9", "1">>, <<"9", "1">>, <<"+">>, <<>> }

InitNormalize ==
    /\ firestore_db = TRUE
    /\ model = TRUE
    /\ user_cache = <<>>
    /\ directory = [k \in DirPhones |-> NoDoc]
    /\ now = 0
    /\ ticks = 0
    /\ ncalls = 0
    /\ last = NoLast
    /\ calls = <<>>
    /\ \E n \in 0..MaxDigits : \E d \in DigitStrings(n) : \E pre \in Prefixes :
          norm = [seen |-> FALSE, prefix |-> pre, digits |-> d,
                  inp |-> pre \o d, out |-> <<>>]
    /\ cls = NoCls
    /\ run = NoRun
    /\ fmt = NoFmt
    /\ http = NoHttp
    /\ tasks = <<>>
    /\ resolvers = NoResolvers
    /\ reads = 0
    /\ VERIFY_TOKEN = "secret"

\* line 93 of main.py applied to the input
Normalize ==
    /\ ~norm.seen
    /\ norm' = [norm EXCEPT !.seen = TRUE, !.out = QueryNumber(norm.inp)]
    /\ UNCHANGED <<firestore_db, model, user_cache, directory, now, ticks,
                   ncalls, last, calls, cls, run,
                   fmt, http, tasks, resolvers, reads, VERIFY_TOKEN>>

NextNormalize == Normalize

SpecNormalize == InitNormalize /\ [][NextNormalize]_vars

\* C4: for every digit string d, "+91"+d and "91"+d normalise to exactly d,
\* also when d begins with 9 or 1.
C4_PrefixStripped ==
    (norm.seen /\ norm.prefix \in { <<"+", "9", "1">>, <<"9", "1">> })
        => norm.out = norm.digits

(***************************************************************************)
(* Python str operations on token sequences.                               *)
(***************************************************************************)
\* the whitespace str.strip() removes
Whitespace == {" ", "\n"}

\* str.lower() of a token
LowerToken(w) ==
    CASE w = "General" -> "general"
      [] w = "Past_Bookings" -> "past_bookings"
      [] w = "Upcoming_Bookings" -> "upcoming_bookings"
      [] w = "User_Name" -> "user_name"
      [] w = "INTENT:" -> "intent:"
      [] w = "RESPONSE:" -> "response:"
      [] w = "Need" -> "need"
      [] w = "NEED" -> "need"
      [] w = "HELP?" -> "help?"
      [] w = "Hello" -> "hello"
      [] OTHER -> w

\* no lower-casing
LowerOmitted(s) == s

\* str.lower()
Lower(s) == [i \in 1..Len(s) |-> LowerToken(s[i])]

RECURSIVE RStrip(_)
\* str.rstrip()
RStrip(s) ==
    IF s # <<>> /\ s[Len(s)] \in Whitespace THEN RStrip(SubSeq(s, 1, Len(s) - 1)) ELSE s

\* str.strip()
Strip(s) == RStrip(LStripChars(s, Whitespace))

\* the index of the first token w in s, 0 when s does not hold it
Find(s, w) ==
    IF \E i \in 1..Len(s) : s[i] = w
    THEN CHOOSE i \in 1..Len(s) : s[i] = w /\ \A j \in 1..(i - 1) : s[j] # w
    ELSE 0

\* w in s
Contains(s, w) == Find(s, w) # 0

\* s.split('\n', 1): the text before the first newline and the text after it;
\* one part only when s holds no newline
SplitFirstNewline(s) ==
    LET i == Find(s, "\n")
    IN  IF i = 0 THEN <<s>>
        ELSE <<SubSeq(s, 1, i - 1), SubSeq(s, i + 1, Len(s))>>

\* s.split(w)[1], for s that holds w: the text between the first w and the next
AfterMarker(s, w) ==
    LET rest == SubSeq(s, Find(s, w) + 1, Len(s))
        j == Find(rest, w)
    IN  IF j = 0 THEN rest ELSE SubSeq(rest, 1, j - 1)

\* s.replace(w, "")
Remove(s, w) == SelectSeq(s, LAMBDA x : x # w)

(***************************************************************************)
(* The intent classifier: get_smart_response, main.py 223-266.             *)
(***************************************************************************)
\* the four labels of the prompt (main.py line 238)
Labels == { <<"upcoming_bookings">>, <<"past_bookings">>, <<"user_name">>,
            <<"general">> }

General == <<"general">>

\* main.py line 225
NotConfiguredText == <<"AI is not configured. Please check your API key.">>

\* main.py line 266
ApologyText == <<"I'm having trouble connecting right now.">>

\* a wrong except branch: the exception goes on to the caller
ExceptBranchReraises(calls_made) ==
    [raised |-> TRUE, intent |-> <<>>, answer |-> <<>>, genCalls |-> calls_made]

\* a wrong except branch: the generative call is made again before giving up
ExceptBranchRetries(calls_made) ==
    [raised |-> FALSE, intent |-> General, answer |-> ApologyText,
     genCalls |-> calls_made + 1]

\* except Exception: return "general", "I'm having trouble connecting right now."
ExceptBranch(calls_made) ==
    [raised |-> FALSE, intent |-> General, answer |-> ApologyText,
     genCalls |-> calls_made]

\* main.py 254-263: the (intent, answer) parsed from response.text
ParseResponse(text) ==
    LET result == Strip(text)
        lines == SplitFirstNewline(result)
        intent_line == IF Len(lines) > 0 THEN lines[1] ELSE <<>>
        response_line == IF Len(lines) > 1 THEN lines[2] ELSE <<>>
        intent == IF Contains(intent_line, "INTENT:")
                  THEN Lower(Strip(AfterMarker(intent_line, "INTENT:")))
                  ELSE General
        answer == Strip(Remove(response_line, "RESPONSE:"))
    IN  [intent |-> intent, answer |-> answer]

\* get_smart_response(user_message, user_info). mdl: model; gen: what
\* model.generate_content(prompt) and response.text do: gen.raises, or the text
\* gen.text. The prompt (user context, knowledge) does not decide the result.
GetSmartResponse(mdl, gen) ==
    IF ~mdl
    THEN [raised |-> FALSE, intent |-> General, answer |-> NotConfiguredText,
          genCalls |-> 0]
    ELSE IF gen.raises
    THEN ExceptBranch(1)
    ELSE [raised |-> FALSE, intent |-> ParseResponse(gen.text).intent,
          answer |-> ParseResponse(gen.text).answer, genCalls |-> 1]

(***************************************************************************)
(* The classifier specification: get_smart_response on every model output  *)
(* of up to MaxTokens tokens, on a failing call, with and without a model. *)
(***************************************************************************)
\* the tokens model outputs are made of
ClassifyTokens == {"INTENT:", "RESPONSE:", "\n", " ", "Past_Bookings", "ok"}

\* the texts of n tokens
Texts(n) == [1..n -> ClassifyTokens]

InitClassify ==
    /\ firestore_db = TRUE
    /\ model \in BOOLEAN
    /\ user_cache = <<>>
    /\ directory = [k \in DirPhones |-> NoDoc]
    /\ now = 0
    /\ ticks = 0
    /\ ncalls = 0
    /\ last = NoLast
    /\ calls = <<>>
    /\ norm = NoNorm
    /\ \/ cls = [seen |-> FALSE, gen |-> [raises |-> TRUE, text |-> <<>>]]
       \/ \E n \in 0..MaxTokens : \E t \in Texts(n) :
             cls = [seen |-> FALSE, gen |-> [raises |-> FALSE, text |-> t]]
    /\ run = NoRun
    /\ fmt = NoFmt
    /\ http = NoHttp
    /\ tasks = <<>>
    /\ resolvers = NoResolvers
    /\ reads = 0
    /\ VERIFY_TOKEN = "secret"

\* one call of get_smart_response
Classify ==
    /\ ~cls.seen
    /\ LET r == GetSmartResponse(model, cls.gen)
       IN  cls' = [seen |-> TRUE, gen |-> cls.gen, raised |-> r.raised,
                   intent |-> r.intent, answer |-> r.answer,
                   genCalls |-> r.genCalls]
    /\ UNCHANGED <<firestore_db, model, user_cache, directory, now, ticks,
                   ncalls, last, calls, norm, run,
                   fmt, http, tasks, resolvers, reads, VERIFY_TOKEN>>

NextClassify == Classify

SpecClassify == InitClassify /\ [][NextClassify]_vars

\* the generative call returned a text
GotText == cls.seen /\ model /\ ~cls.gen.raises

\* the first line of the stripped model output
FirstLine(text) == SplitFirstNewline(Strip(text))[1]

\* the line is the marker followed by one word, blanks aside
MarkerAndWord(line) ==
    /\ line # <<>>
    /\ line[1] = "INTENT:"
    /\ Len(Remove(line, " ")) = 2

\* C5 as stated: the intent is always one of the four labels; an unrecognised
\* value after the marker gives "general".
C5_AsStated == cls.seen => cls.intent \in Labels

\* C5, amended: the intent is "general" whenever the marker INTENT: is absent
\* from the first line, the call fails or no model is configured; when the
\* first line is the marker followed by one of the four labels in any casing,
\* the intent is that label in lower case; any other value after the marker is
\* returned as it is, so the intent is outside the four labels only when the
\* first line holds the marker.
C5_IntentParsed ==
    cls.seen =>
        /\ ~cls.raised
        /\ (~GotText \/ ~Contains(FirstLine(cls.gen.text), "INTENT:"))
              => cls.intent = General
        /\ (GotText /\ MarkerAndWord(FirstLine(cls.gen.text))
               /\ <<LowerToken(Remove(FirstLine(cls.gen.text), " ")[2])>> \in Labels)
              => cls.intent = <<LowerToken(Remove(FirstLine(cls.gen.text), " ")[2])>>

\* an output whose value after the marker is none of the four labels, returned
\* as the intent
C5_Witness ==
    /\ GotText
    /\ MarkerAndWord(FirstLine(cls.gen.text))
    /\ cls.intent = <<"ok">>

\* C6: an output without the marker INTENT: gives the intent "general" and an
\* answer equal to the full output text.
C6_NoMarkerKeepsText ==
    (GotText /\ ~Contains(cls.gen.text, "INTENT:"))
        => (cls.intent = General /\ cls.answer = Strip(cls.gen.text))

\* the output follows the two-line format: INTENT: ... newline RESPONSE: ...
TwoLineFormat(text) ==
    LET lines == SplitFirstNewline(Strip(text))
    IN  /\ Len(lines) = 2
        /\ lines[1] # <<>> /\ lines[1][1] = "INTENT:"
        /\ lines[2] # <<>> /\ lines[2][1] = "RESPONSE:"

\* C7 as stated: get_smart_response never raises, and every call failure, an
\* exception of the generative call or an output that is not in the two-line
\* format, gives ("general", apology).
C7_AsStated ==
    (cls.seen /\ model) =>
        /\ ~cls.raised
        /\ (cls.gen.raises \/ ~TwoLineFormat(cls.gen.text))
              => (cls.intent = General /\ cls.answer = ApologyText)

\* C7, amended: get_smart_response never raises; an exception of the
\* generative call gives ("general", the fixed non-empty apology), a missing
\* model gives ("general", the fixed configuration notice). An output that is
\* not in the two-line format is no failure: it raises nothing and is parsed.
C7_FailuresContained ==
    cls.seen =>
        /\ ~cls.raised
        /\ (model /\ cls.gen.raises)
              => (cls.intent = General /\ cls.answer = ApologyText
                  /\ ApologyText # <<>>)
        /\ ~model => (cls.intent = General /\ cls.answer = NotConfiguredText)

\* a failing generative call answered with the apology
C7_Witness ==
    cls.seen /\ model /\ cls.gen.raises /\ cls.answer = ApologyText

(***************************************************************************)
(* The booking formatters, main.py 129-190.                                *)
(*                                                                         *)
(* A booking is [clinicName, bookingStatus, timestamp]; a timestamp is     *)
(* [kind, t]: kind "datetime" is a native datetime as Firestore delivers   *)
(* it (timezone-aware), "str" a string in one of the two accepted formats  *)
(* (strptime gives a timezone-naive datetime), "bad" a string in no        *)
(* accepted format, "missing" no timestamp field; t orders the instants.   *)
(***************************************************************************)
\* get_sort_key(b), main.py 139-146 and 173-180: datetime.min is naive and
\* smaller than every parsed value
SortKey(b) ==
    CASE b.timestamp.kind = "datetime" -> [aware |-> TRUE, v |-> b.timestamp.t]
      [] b.timestamp.kind = "str" -> [aware |-> FALSE, v |-> b.timestamp.t]
      [] OTHER -> [aware |-> FALSE, v |-> 0]

\* comparing an offset-naive with an offset-aware datetime raises TypeError:
\* list.sort compares the keys of a list of two or more elements until all
\* are ordered, so it raises when both kinds are among them
SortRaises(bs) ==
    \E i, j \in 1..Len(bs) : SortKey(bs[i]).aware /\ ~SortKey(bs[j]).aware

RECURSIVE InsertAscending(_, _)
\* b put into the sorted list after every element whose key is not greater
InsertAscending(sorted, b) ==
    IF sorted = <<>> THEN <<b>>
    ELSE IF SortKey(b).v < SortKey(Head(sorted)).v
    THEN <<b>> \o sorted
    ELSE <<Head(sorted)>> \o InsertAscending(Tail(sorted), b)

RECURSIVE InsertDescending(_, _)
\* b put into the list sorted in descending order after every element whose
\* key is not smaller
InsertDescending(sorted, b) ==
    IF sorted = <<>> THEN <<b>>
    ELSE IF SortKey(b).v > SortKey(Head(sorted)).v
    THEN <<b>> \o sorted
    ELSE <<Head(sorted)>> \o InsertDescending(Tail(sorted), b)

RECURSIVE SortAscending(_)
\* list.sort(key=get_sort_key): stable, ascending
SortAscending(bs) ==
    IF bs = <<>> THEN <<>>
    ELSE InsertAscending(SortAscending(SubSeq(bs, 1, Len(bs) - 1)), bs[Len(bs)])

RECURSIVE SortDescending(_)
\* list.sort(key=get_sort_key, reverse=True): stable, descending
SortDescending(bs) ==
    IF bs = <<>> THEN <<>>
    ELSE InsertDescending(SortDescending(SubSeq(bs, 1, Len(bs) - 1)), bs[Len(bs)])

\* the date line of an upcoming booking, main.py 154-159
UpcomingDate(b) ==
    CASE b.timestamp.kind = "datetime" -> <<"IST", b.timestamp.t>>
      [] b.timestamp.kind \in {"str", "bad"} -> <<"as written", b.timestamp>>
      [] OTHER -> <<"Not scheduled">>

\* the text block of one upcoming booking, main.py line 160
UpcomingBlock(b) == <<"Clinic", b.clinicName, "Date", UpcomingDate(b)>>

\* the text block of one past booking, main.py line 189
PastBlock(b) == <<"Clinic", b.clinicName, "Status", "Completed">>

\* what a formatter does: it returns a text or raises
Returned(text) == [raised |-> FALSE, text |-> text]
Raised == [raised |-> TRUE, text |-> <<>>]

RECURSIVE Deduplicated(_)
\* the list without the later occurrences of a record
Deduplicated(bs) ==
    IF bs = <<>> THEN <<>>
    ELSE LET front == SubSeq(bs, 1, Len(bs) - 1)
         IN  IF \E i \in 1..Len(front) : front[i] = bs[Len(bs)]
             THEN Deduplicated(front)
             ELSE Deduplicated(front) \o <<bs[Len(bs)]>>

\* a formatter that is not the code's: equal records are rendered once
FormatBookingsDeduplicated(bookings) ==
    LET upcoming == Deduplicated(SelectSeq(bookings,
                                           LAMBDA b : b.bookingStatus = "upcoming"))
    IN  IF bookings = <<>>
        THEN Returned(<<"You have no appointments found in our system.">>)
        ELSE IF upcoming = <<>>
        THEN Returned(<<"You have no upcoming appointments scheduled at this time.">>)
        ELSE IF SortRaises(upcoming) THEN Raised
        ELSE Returned(<<"Your Upcoming Appointments">>
                      \o [i \in 1..Len(upcoming) |->
                             UpcomingBlock(SortAscending(upcoming)[i])])

\* format_bookings_for_whatsapp(bookings), main.py 129-161
FormatBookings(bookings) ==
    LET upcoming == SelectSeq(bookings, LAMBDA b : b.bookingStatus = "upcoming")
    IN  IF bookings = <<>>
        THEN Returned(<<"You have no appointments found in our system.">>)
        ELSE IF upcoming = <<>>
        THEN Returned(<<"You have no upcoming appointments scheduled at this time.">>)
        ELSE IF SortRaises(upcoming) THEN Raised
        ELSE Returned(<<"Your Upcoming Appointments">>
                      \o [i \in 1..Len(upcoming) |->
                             UpcomingBlock(SortAscending(upcoming)[i])])

\* format_past_bookings_for_whatsapp(bookings), main.py 163-190
FormatPastBookings(bookings) ==
    LET past == SelectSeq(bookings, LAMBDA b : b.bookingStatus = "completed")
    IN  IF bookings = <<>>
        THEN Returned(<<"You have no booking history found in our system.">>)
        ELSE IF past = <<>>
        THEN Returned(<<"No completed bookings found in your history.">>)
        ELSE IF SortRaises(past) THEN Raised
        ELSE Returned(<<"Your Booking History">>
                      \o [i \in 1..Len(past) |-> PastBlock(SortDescending(past)[i])])

\* get_user_bookings(uid), main.py 114-126: the documents of the collection
\* group, [] when the query raises. bk: [fails, list]
GetUserBookings(db, bk) == IF ~db \/ bk.fails THEN <<>> ELSE bk.list

(***************************************************************************)
(* Transcription: transcribe_audio, main.py 193-217.                       *)
(***************************************************************************)
\* the steps of transcribe_audio that can fail, in order: the media lookup
\* (200-202), a lookup without url (203), the download (204-205), creating the
\* temporary file (206), writing it (207), the upload (209), the generation
\* (210), deleting the uploaded file (211), reading response.text (212)
TranscribeSteps ==
    <<"lookup", "nourl", "download", "create", "write", "upload", "generate",
      "delete", "text">>

\* the position of a step; the position after the last one for "none"
StepIndex(step) ==
    IF \E i \in 1..Len(TranscribeSteps) : TranscribeSteps[i] = step
    THEN CHOOSE i \in 1..Len(TranscribeSteps) : TranscribeSteps[i] = step
    ELSE Len(TranscribeSteps) + 1

\* the step was reached: no earlier step failed
Reached(tr, step) == StepIndex(tr.fail_at) >= StepIndex(step)

\* the step was passed: neither it nor an earlier step failed
Passed(tr, step) == StepIndex(tr.fail_at) > StepIndex(step)

\* None, and a str, as transcription results
NoText == [none |-> TRUE, text |-> <<>>]
SomeText(text) == [none |-> FALSE, text |-> text]

\* a wrong test: if final_text is not None
TruthyNotNone(final_text) == ~final_text.none

\* if final_text: neither None nor the empty string
Truthy(final_text) == ~final_text.none /\ final_text.text # <<>>

\* transcribe_audio(audio_id). mdl: model; tr: [fail_at, text], the step that
\* fails ("none": no step) and the text of the generated response. The result:
\* the value returned, the generate_content calls made, whether the temporary
\* file was created and whether it still exists at the return.
TranscribeAudio(mdl, tr) ==
    IF ~mdl
    THEN [ret |-> NoText, genCalls |-> 0, tempCreated |-> FALSE, tempLeft |-> FALSE]
    ELSE [ret |-> IF tr.fail_at = "none" THEN SomeText(Strip(tr.text)) ELSE NoText,
          genCalls |-> IF Reached(tr, "generate") THEN 1 ELSE 0,
          tempCreated |-> Passed(tr, "create"),
          \* temp_file_path is set after the write (line 208): the finally
          \* clause removes the file only when the write succeeded
          tempLeft |-> Passed(tr, "create") /\ ~Passed(tr, "write")]

(***************************************************************************)
(* The query router: handle_user_query, main.py 289-322.                   *)
(***************************************************************************)
\* "need help?"
TriggerPhrase == <<"need", " ", "help?">>

\* a wrong trigger test: the message is compared as it is written
IsTriggerExact(user_message) == user_message = TriggerPhrase

\* user_message.strip().lower() == "need help?"
IsTrigger(user_message) == Lower(Strip(user_message)) = TriggerPhrase

\* user_info.get("name", "there") if user_info else "there"; a user dict holds
\* the key 'id' and is never empty
GreetingName(user_info) ==
    IF user_info.none \/ user_info.name = Absent THEN "there" ELSE user_info.name

\* f"Hello {user_name}! I'm the ZappQ Support assistant. How can I help you today?"
Greeting(user_name) ==
    <<"Hello", user_name, "! I'm the ZappQ Support assistant. How can I help you today?">>

\* a wrong test: the user dict holds the key, whatever its value
HasKey(user_info, key) ==
    /\ ~user_info.none
    /\ user_info[key] # Absent

\* user_info and user_info.get(key): the user has a non-empty value under key
Has(user_info, key) ==
    /\ ~user_info.none
    /\ user_info[key] \notin {Absent, ""}

\* one send_whatsapp_message(to_number, message_text) call, main.py 272-286:
\* the request is posted; whether the gateway accepts it changes nothing, a
\* failure is logged and never raised. kind tells the final replies from the
\* acknowledgment of an audio message
Message(to_number, kind, message_text) ==
    [to |-> to_number, kind |-> kind, text |-> message_text]

\* what the rest of handle_user_query does with the (intent, answer) of the
\* classifier: the reply it builds, or the exception of a formatter
RouteReply(db, user_info, r, bk) ==
    CASE r.intent = <<"upcoming_bookings">> ->
            IF Has(user_info, "uid")
            THEN FormatBookings(GetUserBookings(db, bk))
            ELSE Returned(<<"I couldn't find your records to check for upcoming appointments.">>)
      [] r.intent = <<"past_bookings">> ->
            IF Has(user_info, "uid")
            THEN FormatPastBookings(GetUserBookings(db, bk))
            ELSE Returned(<<"I couldn't find your records to check for past appointments.">>)
      [] r.intent = <<"user_name">> ->
            IF Has(user_info, "name")
            THEN Returned(<<"Based on your phone number, your name is", user_info.name>>)
            ELSE Returned(<<"I couldn't find a name associated with this phone number.">>)
      [] OTHER -> Returned(r.answer)

\* the router fetches bookings: the intent is a bookings intent and the user
\* has a uid
FetchesBookings(mdl, user_info, gen) ==
    /\ GetSmartResponse(mdl, gen).intent \in {<<"upcoming_bookings">>, <<"past_bookings">>}
    /\ Has(user_info, "uid")

\* main.py 292-296: the greeting is sent and the function returns
TriggerBranch(user_info, from_number) ==
    [sent |-> <<Message(from_number, "reply", Greeting(GreetingName(user_info)))>>,
     aiCalls |-> 0, genCalls |-> 0, raised |-> FALSE, intent |-> <<>>,
     answer |-> <<>>]

\* handle_user_query(user_message, user_info, from_number). gen: what the
\* generative call does; bk: what the bookings query does. The result: the messages dispatched, the
\* get_smart_response and generate_content calls made, and whether an
\* exception leaves the function, with the (intent, answer) of the classifier.
HandleUserQuery(db, mdl, user_message, user_info, from_number, gen, bk) ==
    IF IsTrigger(user_message)
    THEN TriggerBranch(user_info, from_number)
    ELSE LET r == GetSmartResponse(mdl, gen)
             reply == RouteReply(db, user_info, r, bk)
         IN  IF r.raised \/ reply.raised
             THEN [sent |-> <<>>, aiCalls |-> 1, genCalls |-> r.genCalls,
                   raised |-> TRUE, intent |-> r.intent, answer |-> r.answer]
             ELSE [sent |-> <<Message(from_number, "reply", reply.text)>>,
                   aiCalls |-> 1, genCalls |-> r.genCalls, raised |-> FALSE,
                   intent |-> r.intent, answer |-> r.answer]

(***************************************************************************)
(* The background pipeline: process_whatsapp_message, main.py 325-362.     *)
(***************************************************************************)
\* main.py line 349
ProcessingText == <<"Processing your voice message...">>

\* main.py line 356
AudioApologyText == <<"Sorry, I couldn't understand that audio. Please type your message.">>

\* the payload holds a message with its sender and its type: lines 331-334
\* raise nothing
Parses(data) == data.shape = "message"

\* nothing was handled: the payload holds no message, or a key is missing and
\* the KeyError is caught by line 361
Unhandled(c, caught) ==
    [cache |-> c, user_info |-> NoneUser, final_text |-> NoText, fail_at |-> "n/a",
     sent |-> <<>>, aiCalls |-> 0, genCalls |-> 0, caught |-> caught,
     intent |-> <<>>, answer |-> <<>>, tempLeft |-> FALSE]

\* process_whatsapp_message(data). c: user_cache; dir: the directory; t:
\* time.time(); x: what the collaborators do: x.dirFails (the user query
\* raises), x.tr (transcription), x.gen (the generative call of the
\* classifier), x.bk (the bookings query).
ProcessWhatsappMessage(db, mdl, c, dir, t, data, x) ==
    IF data.shape = "no_messages" THEN Unhandled(c, FALSE)
    ELSE IF ~Parses(data) THEN Unhandled(c, TRUE)
    ELSE
    LET u == GetUserInfo(db, c, dir, t, data.from, x.dirFails, 0)
        user_info == u.ret
    IN  CASE data.type = "text" ->
               LET h == HandleUserQuery(db, mdl, data.body, user_info, data.from,
                                        x.gen, x.bk)
               IN  [cache |-> u.cache, user_info |-> user_info,
                    final_text |-> SomeText(data.body), fail_at |-> "n/a",
                    sent |-> h.sent, aiCalls |-> h.aiCalls, genCalls |-> h.genCalls,
                    caught |-> h.raised, intent |-> h.intent, answer |-> h.answer,
                    tempLeft |-> FALSE]
          [] data.type = "audio" ->
               LET ack == Message(data.from, "ack", ProcessingText)
                   a == TranscribeAudio(mdl, x.tr)
                   h == HandleUserQuery(db, mdl, a.ret.text, user_info, data.from,
                                        x.gen, x.bk)
               IN  IF Truthy(a.ret)
                   THEN [cache |-> u.cache, user_info |-> user_info,
                         final_text |-> a.ret, fail_at |-> x.tr.fail_at,
                         sent |-> <<ack>> \o h.sent, aiCalls |-> h.aiCalls,
                         genCalls |-> a.genCalls + h.genCalls,
                         caught |-> h.raised, intent |-> h.intent,
                         answer |-> h.answer, tempLeft |-> a.tempLeft]
                   ELSE [cache |-> u.cache, user_info |-> user_info,
                         final_text |-> a.ret,
                         fail_at |-> IF mdl THEN x.tr.fail_at ELSE "nomodel",
                         sent |-> <<ack, Message(data.from, "reply", AudioApologyText)>>,
                         aiCalls |-> 0, genCalls |-> a.genCalls,
                         caught |-> FALSE, intent |-> <<>>, answer |-> <<>>,
                         tempLeft |-> a.tempLeft]
          [] OTHER ->
               \* neither 'text' nor 'audio': lines 341-356 do nothing
               [cache |-> u.cache, user_info |-> user_info, final_text |-> NoText,
                fail_at |-> "n/a", sent |-> <<>>, aiCalls |-> 0, genCalls |-> 0,
                caught |-> FALSE, intent |-> <<>>, answer |-> <<>>,
                tempLeft |-> FALSE]

(***************************************************************************)
(* The pipeline specification: messages of every shape are processed, one  *)
(* after the other, while time passes and the directory changes.           *)
(***************************************************************************)
\* the bodies of text messages and the transcripts of audio messages
Bodies ==
    { TriggerPhrase, <<" ", "Need", " ", "HELP?", "\n">>, <<"Hello">>, <<>> }

\* the senders of the pipeline specification: the gateway gives the number
\* without '+'
Senders == { <<"9", "1", "8">> }

\* the message types of the gateway
MessageTypes == {"text", "audio", "image"}

\* the payloads of the webhook: a message, a status update without messages,
\* and payloads that lack a key
Payloads ==
    { [shape |-> "message", from |-> f, type |-> "text", body |-> b] :
        f \in Senders, b \in Bodies }
    \cup { [shape |-> "message", from |-> f, type |-> ty, body |-> <<>>] :
        f \in Senders, ty \in MessageTypes \ {"text"} }
    \cup { [shape |-> sh, from |-> <<>>, type |-> "n/a", body |-> <<>>] :
        sh \in {"no_messages", "no_entry", "no_from", "no_type"} }

\* what model.generate_content does for the classifier
Gens ==
    { [raises |-> TRUE, text |-> <<>>] }
    \cup { [raises |-> FALSE, text |-> t] :
             t \in { <<"INTENT:", " ", "Upcoming_Bookings", "\n", "RESPONSE:", " ", "ok">>,
                     <<"INTENT:", " ", "past_bookings", "\n", "RESPONSE:", " ", "ok">>,
                     <<"INTENT:", " ", "user_name", "\n", "RESPONSE:", " ", "ok">>,
                     <<"INTENT:", " ", "general", "\n", "RESPONSE:", " ", "ok">>,
                     <<"INTENT:", " ", "ok", "\n", "RESPONSE:", " ", "ok">>,
                     <<"ok">> } }

\* what transcribe_audio meets
Transcriptions ==
    { [fail_at |-> TranscribeSteps[i], text |-> <<>>] : i \in 1..Len(TranscribeSteps) }
    \cup { [fail_at |-> "none", text |-> b] : b \in Bodies }

\* the bookings of the directory
PipelineBookings ==
    { [clinicName |-> "A", bookingStatus |-> "upcoming",
       timestamp |-> [kind |-> "datetime", t |-> 1]],
      [clinicName |-> "B", bookingStatus |-> "upcoming",
       timestamp |-> [kind |-> "missing", t |-> 0]],
      [clinicName |-> "C", bookingStatus |-> "completed",
       timestamp |-> [kind |-> "datetime", t |-> 2]],
      [clinicName |-> "D", bookingStatus |-> "completed",
       timestamp |-> [kind |-> "str", t |-> 1]] }

\* what the bookings query does
BookingOutcomes ==
    { [fails |-> TRUE, list |-> <<>>] }
    \cup { [fails |-> FALSE, list |-> l] :
             l \in UNION { [1..n -> PipelineBookings] : n \in 0..MaxBookings } }

\* collaborators a run does not call
NoGen == [raises |-> TRUE, text |-> <<>>]
NoTranscription == [fail_at |-> "lookup", text |-> <<>>]
NoBookings == [fails |-> TRUE, list |-> <<>>]

Init ==
    /\ firestore_db \in BOOLEAN
    /\ model \in BOOLEAN
    /\ user_cache = <<>>
    /\ directory \in [DirPhones -> Docs \cup {NoDoc}]
    /\ now = 0
    /\ ticks = 0
    /\ ncalls = 0
    /\ last = NoLast
    /\ calls = <<>>
    /\ norm = NoNorm
    /\ cls = NoCls
    /\ run = NoRun
    /\ fmt = NoFmt
    /\ http = NoHttp
    /\ tasks = <<>>
    /\ resolvers = NoResolvers
    /\ reads = 0
    /\ VERIFY_TOKEN = "secret"

\* one run of process_whatsapp_message on the payload data, in its background
\* thread. The outcomes of the collaborators are drawn where the run calls
\* them.
Process(data) ==
    /\ ~run.seen
    /\ \E dirFails \in BOOLEAN :
      LET user_info ==
              IF Parses(data)
              THEN GetUserInfo(firestore_db, user_cache, directory, now,
                               data.from, dirFails, 0).ret
              ELSE NoneUser
      IN  \E tr \in (IF Parses(data) /\ data.type = "audio"
                     THEN Transcriptions ELSE {NoTranscription}) :
            LET final_text == IF data.type = "text" THEN SomeText(data.body)
                              ELSE TranscribeAudio(model, tr).ret
                classifies == /\ Parses(data)
                              /\ data.type \in {"text", "audio"}
                              /\ data.type = "text" \/ Truthy(final_text)
                              /\ ~IsTrigger(final_text.text)
            IN  \E gen \in (IF classifies THEN Gens ELSE {NoGen}) :
                  \E bk \in (IF classifies /\ FetchesBookings(model, user_info, gen)
                             THEN BookingOutcomes ELSE {NoBookings}) :
                    \E r \in {ProcessWhatsappMessage(
                                 firestore_db, model, user_cache, directory, now, data,
                                 [dirFails |-> dirFails, tr |-> tr, gen |-> gen,
                                  bk |-> bk])} :
                        /\ user_cache' = r.cache
                        /\ run' = [seen |-> TRUE, data |-> data,
                                   user_info |-> r.user_info,
                                   final_text |-> r.final_text,
                                   fail_at |-> r.fail_at, sent |-> r.sent,
                                   aiCalls |-> r.aiCalls, genCalls |-> r.genCalls,
                                   caught |-> r.caught, intent |-> r.intent,
                                   answer |-> r.answer, tempLeft |-> r.tempLeft]
                        /\ UNCHANGED <<firestore_db, model, directory, now, ticks,
                                       ncalls, last, calls, norm, cls,
                                       fmt, http, tasks, resolvers, reads, VERIFY_TOKEN>>

\* the background thread ends
Finish ==
    /\ run.seen
    /\ run' = NoRun
    /\ UNCHANGED <<firestore_db, model, user_cache, directory, now, ticks,
                   ncalls, last, calls, norm, cls,
                   fmt, http, tasks, resolvers, reads, VERIFY_TOKEN>>

Next ==
    \/ \E data \in Payloads : Process(data)
    \/ Finish
    \/ ~run.seen /\ \E d \in TickSteps : Tick(d)
    \/ ~run.seen /\ \E k \in DirPhones, doc \in Docs \cup {NoDoc} :
                        DirectoryChange(k, doc)

Spec == Init /\ [][Next]_vars

(***************************************************************************)
(* Properties of the pipeline.                                             *)
(***************************************************************************)
\* the number of final replies among the messages dispatched
FinalReplies(sent) == Cardinality({ i \in 1..Len(sent) : sent[i].kind = "reply" })

\* C8: every run on a payload that parses (sender and type present) ends
\* having dispatched exactly one final reply, whatever the message type, the
\* intent, the user and the collaborator that fails.
C8_ExactlyOneReply ==
    (run.seen /\ Parses(run.data)) => FinalReplies(run.sent) = 1

\* a text message whose body is "need help?" in some casing, with blanks
\* around it
TriggerMessage ==
    /\ run.seen
    /\ Parses(run.data)
    /\ run.data.type = "text"
    /\ run.data.body \in { <<"need", " ", "help?">>, <<" ", "Need", " ", "HELP?", "\n">> }

\* C9: a text message whose trimmed, lower-cased body is "need help?" gives
\* exactly one dispatched message, the greeting with the resolved user's name
\* ("there" when the user is None or the record holds no name), and neither
\* get_smart_response nor the generative capability is called.
C9_TriggerGreets ==
    TriggerMessage =>
        /\ run.sent =
             << [to |-> run.data.from, kind |-> "reply",
                 text |-> <<"Hello",
                            IF run.user_info.none \/ run.user_info.name = Absent
                            THEN "there" ELSE run.user_info.name,
                            "! I'm the ZappQ Support assistant. How can I help you today?">>] >>
        /\ run.aiCalls = 0
        /\ run.genCalls = 0
        /\ ~run.caught

\* "Need HELP?" with blanks around it, from a user the directory names
C9_Witness ==
    /\ TriggerMessage
    /\ run.data.body # <<"need", " ", "help?">>
    /\ run.user_info.name = "Asha"
    /\ Len(run.sent) = 1
    /\ run.sent[1].text[2] = "Asha"

\* an audio message whose transcription gave no transcript: None, or an empty
\* text
TranscriptionFailed ==
    /\ run.seen
    /\ Parses(run.data)
    /\ run.data.type = "audio"
    /\ run.final_text.none \/ run.final_text.text = <<>>

\* the messages of a failed transcription: the acknowledgment, then the apology
AckAndApology ==
    << [to |-> run.data.from, kind |-> "ack", text |-> ProcessingText],
       [to |-> run.data.from, kind |-> "reply", text |-> AudioApologyText] >>

\* C10 as stated: a transcription that returns None, at whichever step it
\* fails, gives exactly one apology reply and no call of the AI Bridge or of
\* the generative capability.
C10_AsStated ==
    (TranscriptionFailed /\ run.final_text.none) =>
        /\ run.sent = AckAndApology
        /\ run.aiCalls = 0
        /\ run.genCalls = 0

\* C10, amended: a failed transcription gives exactly one apology reply, after
\* the acknowledgment, and no call of get_smart_response; the generative
\* capability is called at most once, by transcribe_audio itself, and only
\* when the transcription reached its generation step.
C10_ApologyWithoutClassifier ==
    TranscriptionFailed =>
        /\ run.sent = AckAndApology
        /\ run.aiCalls = 0
        /\ run.genCalls <= 1
        /\ run.genCalls = 1 => run.fail_at \in {"generate", "delete", "text", "none"}
        /\ ~run.caught

\* a transcription that failed in the generation step: one generative call,
\* the apology, no classifier call
C10_Witness ==
    /\ TranscriptionFailed
    /\ run.fail_at = "generate"
    /\ run.genCalls = 1
    /\ run.aiCalls = 0
    /\ run.sent = AckAndApology

\* a text message that is not the trigger phrase: handle_user_query hands it
\* to get_smart_response
ClassifiedText ==
    /\ run.seen
    /\ Parses(run.data)
    /\ run.data.type = "text"
    /\ ~IsTrigger(run.data.body)

\* C11 as stated: handling one text message that goes to the classifier makes
\* exactly one call of the generative capability, for every intent and every
\* user context.
C11_AsStated == ClassifiedText => run.genCalls = 1

\* C11, amended: such a message makes one get_smart_response call and at most
\* one generative call: exactly one when a model is configured, whatever the
\* intent, the user and the outcome of the call, and none when model is None.
C11_OneCallWhenConfigured ==
    ClassifiedText =>
        /\ run.aiCalls = 1
        /\ run.genCalls = (IF model THEN 1 ELSE 0)

\* a bookings intent for a resolved user: one generative call, then the
\* formatter's text is sent
C11_Witness ==
    /\ ClassifiedText
    /\ model
    /\ run.intent = <<"upcoming_bookings">>
    /\ ~run.user_info.none
    /\ run.user_info.uid = "u1"
    /\ run.genCalls = 1
    /\ Len(run.sent) = 1

\* the router went past the classifier and dispatched its reply (line 322)
Routed ==
    /\ run.seen
    /\ Parses(run.data)
    /\ run.aiCalls = 1
    /\ ~run.caught

\* the text of the last message dispatched
ReplyText == run.sent[Len(run.sent)].text

\* no resolved user, or a user without uid; no known name
NoUid == run.user_info.none \/ run.user_info.uid \in {Absent, ""}
NoName == run.user_info.none \/ run.user_info.name \in {Absent, ""}

\* the unresolved cases of the router
UnresolvedCase ==
    \/ run.intent \in {<<"upcoming_bookings">>, <<"past_bookings">>} /\ NoUid
    \/ run.intent = <<"user_name">> /\ NoName

\* C12 as stated: in every unresolved case, and whenever the intent is
\* general, the dispatched reply is the AI's free-text answer verbatim.
C12_AsStated ==
    (Routed /\ (UnresolvedCase \/ run.intent = <<"general">>)) =>
        /\ Len(run.sent) >= 1
        /\ ReplyText = run.answer

\* C12, amended: the reply is the AI's answer verbatim exactly when the intent
\* is none of upcoming_bookings, past_bookings and user_name; in the
\* unresolved cases the reply is the fixed text of the intent, not the answer.
C12_RouterReplies ==
    Routed =>
        /\ FinalReplies(run.sent) = 1
        /\ run.sent[Len(run.sent)].kind = "reply"
        /\ run.intent \notin {<<"upcoming_bookings">>, <<"past_bookings">>, <<"user_name">>}
              => ReplyText = run.answer
        /\ (run.intent = <<"upcoming_bookings">> /\ NoUid)
              => ReplyText = <<"I couldn't find your records to check for upcoming appointments.">>
        /\ (run.intent = <<"past_bookings">> /\ NoUid)
              => ReplyText = <<"I couldn't find your records to check for past appointments.">>
        /\ (run.intent = <<"user_name">> /\ NoName)
              => ReplyText = <<"I couldn't find a name associated with this phone number.">>

\* the intent user_name for a user whose record holds an empty name: the
\* fixed text is sent, not the answer "ok" of the model
C12_Witness ==
    /\ Routed
    /\ run.intent = <<"user_name">>
    /\ ~run.user_info.none
    /\ run.user_info.name = ""
    /\ run.answer = <<"ok">>
    /\ ReplyText = <<"I couldn't find a name associated with this phone number.">>

(***************************************************************************)
(* The routes of /webhook: webhook_verify (main.py 368-373) and            *)
(* webhook_handler (376-384), with the background threads the handler      *)
(* starts.                                                                 *)
(***************************************************************************)
MaxTasks == 2

\* a Flask response
Response(status, body) == [status |-> status, body |-> body]

\* the values of request.args.get("hub.mode"), ("hub.verify_token") and
\* ("hub.challenge"); Absent: the parameter is not in the query string
Modes == {"subscribe", "unsubscribe", Absent}
Tokens == {"secret", "wrong", "", Absent}
Challenges == {"123", "", Absent}

\* the values of VERIFY_TOKEN: set in the environment, set to the empty
\* string, or None
Secrets == {"secret", "", Absent}

\* webhook_verify(). A view function that ends without a return statement
\* returns None; Flask raises TypeError for it and answers 500.
WebhookVerify(secret, mode, token, challenge) ==
    IF mode = "subscribe" /\ challenge \notin {Absent, ""}
    THEN IF token = secret
         THEN Response(200, challenge)
         ELSE Response(403, "Forbidden")
    ELSE Response(500, "Internal Server Error")

\* the payloads the threads run on: messages of each type, a status update,
\* and payloads where data["entry"] is missing or an empty list
WebPayloads ==
    { [shape |-> "message", from |-> <<"9", "1", "8">>, type |-> "text",
       body |-> <<"Hello">>],
      [shape |-> "message", from |-> <<"9", "1", "8">>, type |-> "audio",
       body |-> <<>>],
      [shape |-> "message", from |-> <<"9", "1", "8">>, type |-> "image",
       body |-> <<>>],
      [shape |-> "no_messages", from |-> <<>>, type |-> "n/a", body |-> <<>>],
      [shape |-> "no_entry", from |-> <<>>, type |-> "n/a", body |-> <<>>],
      [shape |-> "empty_entry", from |-> <<>>, type |-> "n/a", body |-> <<>>] }

\* the bodies of POST requests: a JSON object (with its field object and the
\* rest of the payload), a JSON array, the JSON value null, a body that is
\* not valid JSON, and a body whose content type is not JSON
PostBodies ==
    { [json |-> "dict", object |-> "whatsapp_business_account", data |-> d] :
        d \in WebPayloads }
    \cup { [json |-> "dict", object |-> o,
            data |-> [shape |-> "no_entry", from |-> <<>>, type |-> "n/a",
                      body |-> <<>>]] : o \in {"page", Absent} }
    \cup { [json |-> k, object |-> Absent,
            data |-> [shape |-> "no_entry", from |-> <<>>, type |-> "n/a",
                      body |-> <<>>]] :
            k \in {"list", "null", "malformed", "not_json"} }

\* webhook_handler(). request.get_json() returns the parsed value, raises
\* BadRequest (400) for invalid JSON and, for a content type that is not
\* JSON, raises UnsupportedMediaType (415) or returns None, depending on the
\* Flask version (lenient); data.get of a value that is no dict raises
\* AttributeError, which Flask answers with 500. The result: the response
\* and whether a thread was started.
WebhookHandler(body, lenient) ==
    CASE body.json = "dict" ->
           [response |-> Response(200, "OK"),
            started |-> body.object = "whatsapp_business_account"]
      [] body.json \in {"list", "null"} ->
           [response |-> Response(500, "Internal Server Error"), started |-> FALSE]
      [] body.json = "malformed" ->
           [response |-> Response(400, "Bad Request"), started |-> FALSE]
      [] OTHER ->
           [response |-> IF lenient
                         THEN Response(500, "Internal Server Error")
                         ELSE Response(415, "Unsupported Media Type"),
            started |-> FALSE]

\* threading.Thread(target=process_whatsapp_message, args=(data,)) after
\* thread.start(): the thread exists and has not run yet
Thread(data) ==
    [data |-> data, state |-> "started", sent |-> <<>>, exc |-> "none",
     sawFailure |-> FALSE]

\* the exception raised inside the try block of process_whatsapp_message:
\* KeyError for a missing key, IndexError for an empty list, and the
\* TypeError of a formatter's sort
ExceptionOf(data, r) ==
    CASE data.shape \in {"no_entry", "no_from", "no_type"} -> "KeyError"
      [] data.shape = "empty_entry" -> "IndexError"
      [] r.caught -> "TypeError"
      [] OTHER -> "none"

\* a wrong except clause: except KeyError
ExceptCatchesKeyError(exc) == exc = "KeyError"

\* except Exception (main.py 361): every exception class of the try block
ExceptCatches(exc) == exc \in {"KeyError", "IndexError", "TypeError"}

\* what the collaborators of a thread do: all succeed and the intent is
\* general; the generative calls raise; the user query raises and the
\* upload of the audio fails; the intent is upcoming_bookings and the
\* bookings mix timestamp shapes
TaskOutcomes ==
    { [dirFails |-> FALSE,
       tr |-> [fail_at |-> "none", text |-> <<"Hello">>],
       gen |-> [raises |-> FALSE,
                text |-> <<"INTENT:", " ", "general", "\n", "RESPONSE:", " ", "ok">>],
       bk |-> [fails |-> FALSE, list |-> <<>>]],
      [dirFails |-> FALSE,
       tr |-> [fail_at |-> "generate", text |-> <<>>],
       gen |-> [raises |-> TRUE, text |-> <<>>],
       bk |-> [fails |-> TRUE, list |-> <<>>]],
      [dirFails |-> TRUE,
       tr |-> [fail_at |-> "upload", text |-> <<>>],
       gen |-> [raises |-> FALSE,
                text |-> <<"INTENT:", " ", "past_bookings", "\n", "RESPONSE:", " ", "ok">>],
       bk |-> [fails |-> FALSE, list |-> <<>>]],
      [dirFails |-> FALSE,
       tr |-> [fail_at |-> "none", text |-> <<"Hello">>],
       gen |-> [raises |-> FALSE,
                text |-> <<"INTENT:", " ", "upcoming_bookings", "\n", "RESPONSE:", " ", "ok">>],
       bk |-> [fails |-> FALSE,
               list |-> << [clinicName |-> "A", bookingStatus |-> "upcoming",
                            timestamp |-> [kind |-> "datetime", t |-> 1]],
                           [clinicName |-> "B", bookingStatus |-> "upcoming",
                            timestamp |-> [kind |-> "missing", t |-> 0]] >>]] }

InitWebhook ==
    /\ firestore_db = TRUE
    /\ model \in BOOLEAN
    /\ user_cache = <<>>
    /\ directory = [k \in DirPhones |-> [id |-> "docA", uid |-> "u1", name |-> "Asha"]]
    /\ now = 0
    /\ ticks = 0
    /\ ncalls = 0
    /\ last = NoLast
    /\ calls = <<>>
    /\ norm = NoNorm
    /\ cls = NoCls
    /\ run = NoRun
    /\ fmt = NoFmt
    /\ http = NoHttp
    /\ tasks = <<>>
    /\ resolvers = NoResolvers
    /\ reads = 0
    /\ VERIFY_TOKEN = "secret"

\* GET /webhook
Verify(mode, token, challenge) ==
    /\ http' = [seen |-> TRUE, method |-> "GET", mode |-> mode, token |-> token,
                challenge |-> challenge, json |-> "n/a", object |-> Absent,
                response |-> WebhookVerify(VERIFY_TOKEN, mode, token, challenge),
                started |-> FALSE]
    /\ UNCHANGED <<firestore_db, model, user_cache, directory, now, ticks, ncalls,
                   last, calls, norm, cls, run, fmt, tasks, resolvers, reads,
                   VERIFY_TOKEN>>

\* POST /webhook: the response is returned once the thread, if any, is
\* started; the thread runs in later steps
Post(body, lenient) ==
    /\ body.json = "dict" /\ body.object = "whatsapp_business_account"
         => Len(tasks) < MaxTasks
    /\ \E r \in {WebhookHandler(body, lenient)} :
         /\ tasks' = IF r.started THEN Append(tasks, Thread(body.data)) ELSE tasks
         /\ http' = [seen |-> TRUE, method |-> "POST", mode |-> Absent,
                     token |-> Absent, challenge |-> Absent, json |-> body.json,
                     object |-> body.object, response |-> r.response,
                     started |-> r.started]
    /\ UNCHANGED <<firestore_db, model, user_cache, directory, now, ticks, ncalls,
                   last, calls, norm, cls, run, fmt, resolvers, reads,
                   VERIFY_TOKEN>>

\* the thread i runs process_whatsapp_message to its end. The thread ends
\* normally unless an exception leaves the function.
RunTask(i, x) ==
    /\ tasks[i].state = "started"
    /\ \E r \in {ProcessWhatsappMessage(firestore_db, model, user_cache, directory,
                                        now, tasks[i].data, x)} :
         \E exc \in {ExceptionOf(tasks[i].data, r)} :
           /\ user_cache' = r.cache
           /\ tasks' = [tasks EXCEPT ![i] =
                          [data |-> tasks[i].data,
                           state |-> IF exc # "none" /\ ~ExceptCatches(exc)
                                     THEN "died" ELSE "returned",
                           sent |-> r.sent,
                           exc |-> exc,
                           sawFailure |-> \E j \in 1..Len(tasks) :
                                             j # i /\ tasks[j].exc # "none"]]
    /\ UNCHANGED <<firestore_db, model, directory, now, ticks, ncalls, last, calls,
                   norm, cls, run, fmt, http, resolvers, reads, VERIFY_TOKEN>>

NextWebhook ==
    \/ \E body \in PostBodies :
          \E lenient \in (IF body.json = "not_json" THEN BOOLEAN ELSE {FALSE}) :
             Post(body, lenient)
    \/ \E i \in 1..Len(tasks), x \in TaskOutcomes : RunTask(i, x)

SpecWebhook == InitWebhook /\ [][NextWebhook]_vars

\* the verification specification: GET requests with every combination of
\* parameters, for every value of VERIFY_TOKEN
InitVerify ==
    /\ firestore_db = TRUE
    /\ model = TRUE
    /\ user_cache = <<>>
    /\ directory = [k \in DirPhones |-> NoDoc]
    /\ now = 0
    /\ ticks = 0
    /\ ncalls = 0
    /\ last = NoLast
    /\ calls = <<>>
    /\ norm = NoNorm
    /\ cls = NoCls
    /\ run = NoRun
    /\ fmt = NoFmt
    /\ http = NoHttp
    /\ tasks = <<>>
    /\ resolvers = NoResolvers
    /\ reads = 0
    /\ VERIFY_TOKEN \in Secrets

NextVerify ==
    \E mode \in Modes, token \in Tokens, challenge \in Challenges :
        Verify(mode, token, challenge)

SpecVerify == InitVerify /\ [][NextVerify]_vars

(***************************************************************************)
(* Properties of the routes and of the background threads.                 *)
(***************************************************************************)
\* C13: the POST handler answers every request with the 200 acknowledgment,
\* whatever the body: a JSON object with or without the expected keys, and a
\* body that is not a JSON object.
C13_AlwaysAcknowledged ==
    (http.seen /\ http.method = "POST") => http.response.status = 200

\* C14: the GET verification echoes the challenge with status 200 exactly
\* when the mode is "subscribe" and the token equals the configured secret
\* (and a challenge is given), and answers 403 in every other case.
C14_EchoOrForbidden ==
    (http.seen /\ http.method = "GET") =>
        IF /\ http.mode = "subscribe"
           /\ http.token = VERIFY_TOKEN
           /\ http.challenge \notin {Absent, ""}
        THEN http.response = [status |-> 200, body |-> http.challenge]
        ELSE http.response.status = 403

\* a thread that ran on a text or audio message and met no exception
RanClean(i) ==
    /\ tasks[i].state = "returned"
    /\ tasks[i].data.shape = "message"
    /\ tasks[i].data.type \in {"text", "audio"}
    /\ tasks[i].exc = "none"

\* C18: no exception leaves process_whatsapp_message, whatever the payload
\* lacks and whichever collaborator fails: every thread that ran returned
\* normally; and every thread that handled a text or audio message without an
\* exception of its own dispatched its reply, also when another thread's
\* payload raised.
C18_ExceptionsContained ==
    \A i \in 1..Len(tasks) :
        /\ tasks[i].state \in {"started", "returned"}
        /\ RanClean(i) => FinalReplies(tasks[i].sent) = 1

\* the first message was in flight while the thread of the second, whose
\* payload lacks a key, raised KeyError and returned; the first then ran and
\* dispatched its reply; also a thread whose formatter raised has returned
C18_Witness ==
    /\ Len(tasks) = 2
    /\ tasks[2].exc \in {"KeyError", "IndexError"}
    /\ tasks[2].state = "returned"
    /\ tasks[1].sawFailure
    /\ RanClean(1)
    /\ FinalReplies(tasks[1].sent) = 1

\* C15: whenever transcribe_audio has returned, with a transcript or with
\* None, the temporary file it created no longer exists, whichever step
\* failed after the file was created.
C15_TempFileRemoved ==
    (run.seen /\ Parses(run.data) /\ run.data.type = "audio") => ~run.tempLeft

(***************************************************************************)
(* The formatter specification: both formatters applied to every list of   *)
(* up to MaxList bookings.                                                 *)
(***************************************************************************)
MaxList == 3

\* the timestamps of bookings: native datetimes, a string in an accepted
\* format, a string in no accepted format, and no timestamp
Timestamps ==
    { [kind |-> "datetime", t |-> 1], [kind |-> "datetime", t |-> 2],
      [kind |-> "str", t |-> 1], [kind |-> "bad", t |-> 0],
      [kind |-> "missing", t |-> 0] }

\* the booking records get_user_bookings delivers
FormatterBookings ==
    { [clinicName |-> c, bookingStatus |-> st, timestamp |-> ts] :
        c \in {"A", "B"}, st \in {"upcoming", "completed"}, ts \in Timestamps }
    \cup { [clinicName |-> "A", bookingStatus |-> "cancelled",
            timestamp |-> [kind |-> "datetime", t |-> 1]] }

InitFormat ==
    /\ firestore_db = TRUE
    /\ model = TRUE
    /\ user_cache = <<>>
    /\ directory = [k \in DirPhones |-> NoDoc]
    /\ now = 0
    /\ ticks = 0
    /\ ncalls = 0
    /\ last = NoLast
    /\ calls = <<>>
    /\ norm = NoNorm
    /\ cls = NoCls
    /\ run = NoRun
    /\ \E n \in 0..MaxList : \E l \in [1..n -> FormatterBookings] :
          fmt = [seen |-> FALSE, bookings |-> l, upcoming |-> Raised,
                 past |-> Raised]
    /\ http = NoHttp
    /\ tasks = <<>>
    /\ resolvers = NoResolvers
    /\ reads = 0
    /\ VERIFY_TOKEN = "secret"

\* both formatters are called on the list
Format ==
    /\ ~fmt.seen
    /\ fmt' = [seen |-> TRUE, bookings |-> fmt.bookings,
               upcoming |-> FormatBookings(fmt.bookings),
               past |-> FormatPastBookings(fmt.bookings)]
    /\ UNCHANGED <<firestore_db, model, user_cache, directory, now, ticks, ncalls,
                   last, calls, norm, cls, run, http, tasks, resolvers, reads,
                   VERIFY_TOKEN>>

NextFormat == Format

SpecFormat == InitFormat /\ [][NextFormat]_vars

(***************************************************************************)
(* Properties of the formatters.                                           *)
(***************************************************************************)
\* the bookings of a status, in input order
Matching(bookings, status) ==
    SelectSeq(bookings, LAMBDA b : b.bookingStatus = status)

\* the key the bookings are to be ordered by: the parsed timestamp, the
\* minimum for a missing or unparseable one
Key(b) == IF b.timestamp.kind \in {"datetime", "str"} THEN b.timestamp.t ELSE 0

\* the blocks of a rendered text: what follows the heading
Blocks(result) == Tail(result.text)

\* the permutations of 1..n
Perms(n) == { p \in [1..n -> 1..n] : \A i, j \in 1..n : p[i] = p[j] => i = j }

\* the keys of sel taken in the order p never decrease (never increase when
\* descending), and equal keys keep their input order
Ordered(sel, p, descending) ==
    \A i, j \in 1..Len(sel) :
        i < j =>
          /\ IF descending THEN Key(sel[p[i]]) >= Key(sel[p[j]])
                            ELSE Key(sel[p[i]]) <= Key(sel[p[j]])
          /\ Key(sel[p[i]]) = Key(sel[p[j]]) => p[i] < p[j]

\* the upcoming formatter rendered the upcoming bookings in ascending, stable
\* order
UpcomingInOrder ==
    LET sel == Matching(fmt.bookings, "upcoming")
    IN  /\ ~fmt.upcoming.raised
        /\ Len(Blocks(fmt.upcoming)) = Len(sel)
        /\ \E p \in Perms(Len(sel)) :
              /\ Ordered(sel, p, FALSE)
              /\ \A i \in 1..Len(sel) :
                    Blocks(fmt.upcoming)[i] =
                        <<"Clinic", sel[p[i]].clinicName, "Date",
                          UpcomingDate(sel[p[i]])>>

\* the past formatter rendered the completed bookings in descending, stable
\* order
PastInOrder ==
    LET sel == Matching(fmt.bookings, "completed")
    IN  /\ ~fmt.past.raised
        /\ Len(Blocks(fmt.past)) = Len(sel)
        /\ \E p \in Perms(Len(sel)) :
              /\ Ordered(sel, p, TRUE)
              /\ \A i \in 1..Len(sel) :
                    Blocks(fmt.past)[i] =
                        <<"Clinic", sel[p[i]].clinicName, "Status", "Completed">>

\* C16: for every list of bookings the upcoming formatter renders the
\* upcoming bookings in ascending order of timestamp and the past formatter
\* the completed ones in descending order, a missing or unparseable
\* timestamp counting as the minimum and equal keys keeping input order.
C16_SortedAndStable ==
    fmt.seen =>
        /\ Matching(fmt.bookings, "upcoming") # <<>> => UpcomingInOrder
        /\ Matching(fmt.bookings, "completed") # <<>> => PastInOrder

\* the keys of the bookings of a status can be compared with each other: all
\* are timezone-aware or all are timezone-naive
Comparable(status) ==
    \A i, j \in 1..Len(Matching(fmt.bookings, status)) :
        (Matching(fmt.bookings, status)[i].timestamp.kind = "datetime")
          = (Matching(fmt.bookings, status)[j].timestamp.kind = "datetime")

\* where the keys can be compared the order is the one C16 describes, and
\* where they cannot the formatter raises
OrderWhereComparable ==
    fmt.seen =>
        /\ Matching(fmt.bookings, "upcoming") # <<>> =>
              IF Comparable("upcoming") THEN UpcomingInOrder ELSE fmt.upcoming.raised
        /\ Matching(fmt.bookings, "completed") # <<>> =>
              IF Comparable("completed") THEN PastInOrder ELSE fmt.past.raised

\* the number of positions of a sequence that satisfy a test
Count(seq, Test(_)) == Cardinality({ i \in 1..Len(seq) : Test(seq[i]) })

\* the distinct records of a list
Distinct(seq) == { seq[i] : i \in 1..Len(seq) }

\* a formatter rendered blocks: it returned and some booking matched
RenderedUpcoming ==
    fmt.seen /\ ~fmt.upcoming.raised /\ Matching(fmt.bookings, "upcoming") # <<>>
RenderedPast ==
    fmt.seen /\ ~fmt.past.raised /\ Matching(fmt.bookings, "completed") # <<>>

\* C17 as stated: the summaries are de-duplicated: a booking record that
\* occurs more than once in the input is rendered as one block.
C17_AsStated ==
    /\ RenderedUpcoming =>
          Len(Blocks(fmt.upcoming))
            = Cardinality(Distinct(Matching(fmt.bookings, "upcoming")))
    /\ RenderedPast =>
          Len(Blocks(fmt.past))
            = Cardinality(Distinct(Matching(fmt.bookings, "completed")))

\* C17, amended: the formatters do not de-duplicate: every matching record
\* of the input is rendered as one block, so a record that occurs k times is
\* rendered k times.
C17_OneBlockPerRecord ==
    /\ RenderedUpcoming =>
          /\ Len(Blocks(fmt.upcoming)) = Len(Matching(fmt.bookings, "upcoming"))
          /\ \A b \in Distinct(Matching(fmt.bookings, "upcoming")) :
                Count(Blocks(fmt.upcoming),
                      LAMBDA blk : blk = <<"Clinic", b.clinicName, "Date",
                                           UpcomingDate(b)>>)
                  = Count(Matching(fmt.bookings, "upcoming"), LAMBDA x : x = b)
    /\ RenderedPast =>
          /\ Len(Blocks(fmt.past)) = Len(Matching(fmt.bookings, "completed"))
          /\ \A c \in {"A", "B"} :
                Count(Blocks(fmt.past), LAMBDA blk : blk[2] = c)
                  = Count(Matching(fmt.bookings, "completed"),
                          LAMBDA x : x.clinicName = c)

\* the same upcoming booking twice in the input, and its block twice in the
\* text
C17_Witness ==
    /\ RenderedUpcoming
    /\ Len(fmt.bookings) = 2
    /\ fmt.bookings[1] = fmt.bookings[2]
    /\ Len(Blocks(fmt.upcoming)) = 2
    /\ Blocks(fmt.upcoming)[1] = Blocks(fmt.upcoming)[2]

\* C20: both formatters return a text, and never raise, for every list of
\* booking records, also when the matching bookings mix native timestamps
\* with strings and missing ones.
C20_FormattersNeverRaise ==
    fmt.seen => ~fmt.upcoming.raised /\ ~fmt.past.raised

(***************************************************************************)
(* The race specification: two threads call get_user_info for the same     *)
(* phone number at the same time. A call is three steps, the statements    *)
(* between which another thread can run: the cache test (main.py 84-89),   *)
(* the directory query (93-97) and the cache write (99-107). No lock is    *)
(* held between them.                                                      *)
(***************************************************************************)
\* the threads that resolve
Resolvers == {1, 2}

\* the phone number both resolve
RacePhone == <<"9", "1", "8">>

\* a call that has not started
Starting ==
    [pc |-> "start", read |-> NoDoc, readNo |-> 0, stored |-> FALSE,
     storedAt |-> 0, ret |-> NoneUser]

InitRace ==
    /\ firestore_db = TRUE
    /\ model = TRUE
    /\ user_cache = <<>>
    /\ directory \in [DirPhones -> CacheDocs \cup {NoDoc}]
    /\ now = 0
    /\ ticks = 0
    /\ ncalls = 0
    /\ last = NoLast
    /\ calls = <<>>
    /\ norm = NoNorm
    /\ cls = NoCls
    /\ run = NoRun
    /\ fmt = NoFmt
    /\ http = NoHttp
    /\ tasks = <<>>
    /\ resolvers = [i \in Resolvers |-> Starting]
    /\ reads = 0
    /\ VERIFY_TOKEN = "secret"

\* main.py 84-89: a fresh entry is returned, otherwise the call goes on to
\* the query
CheckCache(i) ==
    /\ resolvers[i].pc = "start"
    /\ resolvers' =
          [resolvers EXCEPT ![i] =
             IF Fresh(Lookup(user_cache, CacheKey(RacePhone)), now)
             THEN [@ EXCEPT !.pc = "done",
                            !.ret = Lookup(user_cache, CacheKey(RacePhone)).data]
             ELSE [@ EXCEPT !.pc = "query"]]
    /\ UNCHANGED <<firestore_db, model, user_cache, directory, now, ticks, ncalls,
                   last, calls, norm, cls, run, fmt, http, tasks, reads,
                   VERIFY_TOKEN>>

\* main.py 93-97: the directory is read; a query that raises ends the call
\* with None and stores nothing (109-111)
QueryDirectory(i, fails) ==
    /\ resolvers[i].pc = "query"
    /\ reads' = reads + 1
    /\ resolvers' =
          [resolvers EXCEPT ![i] =
             IF fails
             THEN [@ EXCEPT !.pc = "done", !.ret = NoneUser]
             ELSE [@ EXCEPT !.pc = "store",
                            !.read = FindUser(directory, QueryNumber(RacePhone)),
                            !.readNo = reads + 1]]
    /\ UNCHANGED <<firestore_db, model, user_cache, directory, now, ticks, ncalls,
                   last, calls, norm, cls, run, fmt, http, tasks, VERIFY_TOKEN>>

\* main.py 99-107: what was read is written to the cache with the time of
\* the write, and returned
StoreResult(i) ==
    /\ resolvers[i].pc = "store"
    /\ user_cache' = Store(user_cache, CacheKey(RacePhone),
                           Entry(DirAnswer(resolvers[i].read), now))
    /\ resolvers' = [resolvers EXCEPT ![i] =
                        [@ EXCEPT !.pc = "done", !.stored = TRUE,
                                  !.storedAt = now,
                                  !.ret = DirAnswer(resolvers[i].read)]]
    /\ UNCHANGED <<firestore_db, model, directory, now, ticks, ncalls, last, calls,
                   norm, cls, run, fmt, http, tasks, reads, VERIFY_TOKEN>>

NextRace ==
    \/ \E i \in Resolvers : CheckCache(i)
    \/ \E i \in Resolvers, fails \in BOOLEAN : QueryDirectory(i, fails)
    \/ \E i \in Resolvers : StoreResult(i)
    \/ \E d \in TickSteps : Tick(d)
    \/ \E k \in DirPhones, doc \in CacheDocs \cup {NoDoc} : DirectoryChange(k, doc)

SpecRace == InitRace /\ [][NextRace]_vars

\* both calls have finished, each after a directory read it stored
BothStored ==
    \A i \in Resolvers : resolvers[i].pc = "done" /\ resolvers[i].stored

\* the call that read the directory last
LaterReader ==
    CHOOSE i \in Resolvers : \A j \in Resolvers : resolvers[j].readNo <= resolvers[i].readNo

\* C19: under every interleaving of two concurrent get_user_info calls for
\* the same uncached phone, once both have finished the cache entry holds the
\* value of the later of the two directory reads, never the earlier read
\* under a newer timestamp.
C19_FreshestValueKept ==
    BothStored =>
        Lookup(user_cache, RacePhone).data = DirAnswer(resolvers[LaterReader].read)

====
